---- MODULE Spec2Model ----
(***************************************************************************)
(* Card builds of TitleCardMaker: the Marvel-style title card              *)
(* (modules/cards/MarvelTitleCard.py) and the genre card                   *)
(* (modules/GenreMaker.py), both driving ImageMagick through               *)
(* modules/ImageMagickInterface.py; and the series YAML file kept by       *)
(* modules/SeriesYamlWriter.py.                                            *)
(*                                                                         *)
(* Numbers that Python computes as floats (font_size_modifier, point       *)
(* sizes, compact-mode offsets) are exact fractions <<n, d>> with d > 0,   *)
(* in lowest terms; float rounding is outside the model.                   *)
(***************************************************************************)
EXTENDS Integers, Sequences, FiniteSets, TLC

VARIABLES
    \* ---- one MarvelTitleCard object and the engine it talks to
    card,                   \* the constructor's arguments (never reassigned)
    metrics,                \* the engine's text widths at modifier 1.0
    source_exists,          \* whether card.source_file is on disk
    font_size_modifier,     \* self.font_size_modifier, a fraction
    title_text_dimensions,  \* create()'s local, a width in pixels
    index_text_dimensions,  \* create()'s local, a width in pixels
    mpc,                    \* where create() stands
    commands,               \* commands handed to image_magick.run, in order
    engine_log,             \* engine calls of the current create(), in order
    card_written,           \* whether card.output_file has been written
    builds,                 \* create() calls finished on this object
    \* ---- GenreMaker builds sharing one file system
    gpc,                    \* per build: where create() stands
    fs,                     \* path -> 0 (absent) or the build whose source it shows
    genre,                  \* per build: does the genre text split cleanly
    errors,                 \* per build: error() was logged
    stderr_seen,            \* per build: a run returned non-empty stderr
    produced,               \* per build: intermediates its own runs wrote
    unlinked,               \* per build: <<>> or <<the paths its cleanup removed>>
    \* ---- one SeriesYamlWriter object and its file
    ycfg,                   \* sync_mode, compact_mode, volume_map, template
    yfile,                  \* self.file on disk
    ysource,                \* source of the last update: "none", "sonarr", "plex"
    youtcome,               \* how the last update ended
    existing,               \* self.file as the last update found it
    applied,                \* the exclusions the last update was given
    built,                  \* the last update's YAML before the exclusions
    incoming,               \* the last update's YAML after the exclusions
    ylog,                   \* errors the last update logged
    updates                 \* updates run on this object

mvars == <<card, metrics, source_exists, font_size_modifier,
           title_text_dimensions, index_text_dimensions, mpc,
           commands, engine_log, card_written, builds>>
gvars == <<gpc, fs, genre, errors, stderr_seen, produced, unlinked>>
yvars == <<ycfg, yfile, ysource, youtcome, existing, applied, built, incoming,
           ylog, updates>>
vars == <<mvars, gvars, yvars>>

-----------------------------------------------------------------------------
\* Bounds of the model
MaxBuilds == 2

\* Updates run on one SeriesYamlWriter object
MaxUpdates == 2

\* Program constants
WIDTH == 3200
HEIGHT == 1800
DEFAULT_BORDER_SIZE == 55
DEFAULT_TEXT_BOX_HEIGHT == 200

-----------------------------------------------------------------------------
\* Exact fractions

Abs(x) == IF x < 0 THEN -x ELSE x

RECURSIVE GCD(_, _)
GCD(a, b) == IF b = 0 THEN a ELSE GCD(b, a % b)

\* n / d in lowest terms, d /= 0
Rat(n, d) ==
    LET g == GCD(Abs(n), Abs(d))
        s == IF d < 0 THEN -1 ELSE 1
    IN  <<(s * n) \div g, (s * d) \div g>>

RInt(k) == <<k, 1>>
RAdd(p, q) == Rat(p[1] * q[2] + q[1] * p[2], p[2] * q[2])
RMul(p, q) == Rat(p[1] * q[1], p[2] * q[2])
RDiv(p, q) == Rat(p[1] * q[2], p[2] * q[1])
RFloor(p) == p[1] \div p[2]

-----------------------------------------------------------------------------
\* MarvelTitleCard: the instruction groups

\* One ImageMagick directive: the group create() places it in, the
\* directive, its numeric arguments and the text it annotates ("" if none).
Ins(g, o, a, t) == [grp |-> g, op |-> o, args |-> a, text |-> t]

\* Coordinate.__str__: each component printed with format .0f
Coordinate(x, y) == <<RFloor(RAdd(RInt(x), <<1, 2>>)), RFloor(RAdd(RInt(y), <<1, 2>>))>>

\* Rectangle.draw: -draw "rectangle sx,sy,ex,ey"
Rectangle(g, start, end) == Ins(g, "draw_rectangle", start \o end, "")

\* title_text_commands with self.font_size_modifier = m
title_text_commands(c, m) ==
    IF c.title_text = "" THEN <<>>
    ELSE LET size == RMul(RInt(150 * c.font_size), m)
             vertical_shift == 820 + c.font_vertical_shift
         IN  << Ins("title", "font", <<>>, ""),
                Ins("title", "fill", <<>>, ""),
                Ins("title", "pointsize", size, ""),
                Ins("title", "kerning", <<>>, ""),
                Ins("title", "interline-spacing", <<>>, ""),
                Ins("title", "interword-spacing", <<>>, ""),
                Ins("title", "gravity_center", <<>>, ""),
                Ins("title", "annotate", <<0, 1, vertical_shift>>, "title") >>

\* index_text_commands with the fixed-mode inset taken from the class default
index_text_commands_default_inset(c, m, title_width) ==
    IF c.hide_season_text /\ c.hide_episode_text THEN <<>>
    ELSE LET y_position == 810 + c.font_vertical_shift
             x_position == RAdd(RDiv(RInt(WIDTH + title_width), RInt(2)), RInt(20))
             x == IF c.episode_text_position = "compact"
                  THEN <<x_position[1], x_position[2], y_position>>
                  ELSE <<DEFAULT_BORDER_SIZE, 1, y_position>>
             compact == c.episode_text_position = "compact"
         IN  << Ins("index", "font", <<>>, ""),
                Ins("index", "fill", <<>>, ""),
                Ins("index", "pointsize", RMul(RInt(70), m), ""),
                Ins("index", "kerning", <<>>, ""),
                Ins("index", "interword-spacing", <<>>, "") >>
             \o (IF c.hide_season_text THEN <<>>
                 ELSE << Ins("index", IF compact THEN "gravity_east" ELSE "gravity_west",
                             <<>>, ""),
                         Ins("index", "annotate", x, "season") >>)
             \o (IF c.hide_episode_text THEN <<>>
                 ELSE << Ins("index", IF compact THEN "gravity_west" ELSE "gravity_east",
                             <<>>, ""),
                         Ins("index", "annotate", x, "episode") >>)

\* index_text_commands with the season text emitted although it is hidden
index_text_commands_season_always(c, m, title_width) ==
    LET y_position == 810 + c.font_vertical_shift
        x_position == RAdd(RDiv(RInt(WIDTH + title_width), RInt(2)), RInt(20))
        x == IF c.episode_text_position = "compact"
             THEN <<x_position[1], x_position[2], y_position>>
             ELSE <<c.border_size, 1, y_position>>
        compact == c.episode_text_position = "compact"
    IN  IF c.hide_season_text /\ c.hide_episode_text THEN <<>>
        ELSE << Ins("index", "font", <<>>, ""),
                Ins("index", "fill", <<>>, ""),
                Ins("index", "pointsize", RMul(RInt(70), m), ""),
                Ins("index", "kerning", <<>>, ""),
                Ins("index", "interword-spacing", <<>>, ""),
                Ins("index", IF compact THEN "gravity_east" ELSE "gravity_west", <<>>, ""),
                Ins("index", "annotate", x, "season") >>
             \o (IF c.hide_episode_text THEN <<>>
                 ELSE << Ins("index", IF compact THEN "gravity_west" ELSE "gravity_east",
                             <<>>, ""),
                         Ins("index", "annotate", x, "episode") >>)

\* index_text_commands(title_text_dimensions) with self.font_size_modifier = m;
\* an annotate's arguments are the x offset (a fraction) and the y offset
index_text_commands(c, m, title_width) ==
    IF c.hide_season_text /\ c.hide_episode_text THEN <<>>
    ELSE LET y_position == 810 + c.font_vertical_shift
             x_position == RAdd(RDiv(RInt(WIDTH + title_width), RInt(2)), RInt(20))
             season_text_command ==
                 IF c.hide_season_text THEN <<>>
                 ELSE IF c.episode_text_position = "compact"
                      THEN << Ins("index", "gravity_east", <<>>, ""),
                              Ins("index", "annotate",
                                  <<x_position[1], x_position[2], y_position>>, "season") >>
                      ELSE << Ins("index", "gravity_west", <<>>, ""),
                              Ins("index", "annotate",
                                  <<c.border_size, 1, y_position>>, "season") >>
             episode_text_command ==
                 IF c.hide_episode_text THEN <<>>
                 ELSE IF c.episode_text_position = "compact"
                      THEN << Ins("index", "gravity_west", <<>>, ""),
                              Ins("index", "annotate",
                                  <<x_position[1], x_position[2], y_position>>, "episode") >>
                      ELSE << Ins("index", "gravity_east", <<>>, ""),
                              Ins("index", "annotate",
                                  <<c.border_size, 1, y_position>>, "episode") >>
             font_size == RMul(RInt(70), m)
         IN  << Ins("index", "font", <<>>, ""),
                Ins("index", "fill", <<>>, ""),
                Ins("index", "pointsize", font_size, ""),
                Ins("index", "kerning", <<>>, ""),
                Ins("index", "interword-spacing", <<>>, "") >>
             \o season_text_command \o episode_text_command

\* border_commands with a fourth strip drawn along the bottom edge
border_commands_four_sides(c) ==
    IF c.hide_border THEN <<>>
    ELSE << Ins("border", "fill", <<>>, ""),
            Rectangle("border", Coordinate(0, 0), Coordinate(c.border_size, HEIGHT)),
            Rectangle("border", Coordinate(0, 0), Coordinate(WIDTH, c.border_size)),
            Rectangle("border", Coordinate(WIDTH - c.border_size, 0),
                      Coordinate(WIDTH, HEIGHT)),
            Rectangle("border", Coordinate(0, HEIGHT - c.border_size),
                      Coordinate(WIDTH, HEIGHT)) >>

\* border_commands
border_commands(c) ==
    IF c.hide_border THEN <<>>
    ELSE LET left_rectangle ==
                 Rectangle("border", Coordinate(0, 0), Coordinate(c.border_size, HEIGHT))
             top_rectangle ==
                 Rectangle("border", Coordinate(0, 0), Coordinate(WIDTH, c.border_size))
             right_rectangle ==
                 Rectangle("border", Coordinate(WIDTH - c.border_size, 0),
                           Coordinate(WIDTH, HEIGHT))
         IN  << Ins("border", "fill", <<>>, ""),
                left_rectangle, top_rectangle, right_rectangle >>

\* bottom_border_commands
bottom_border_commands(c) ==
    LET rectangle == Rectangle("box", Coordinate(0, HEIGHT - c.text_box_height),
                               Coordinate(WIDTH, HEIGHT))
    IN  << Ins("box", "fill", <<>>, ""), rectangle >>

\* BaseCardType.resize_and_style: resize the source to the card size
resize_and_style(c) ==
    << Ins("style", "gravity_center", <<>>, ""),
       Ins("style", "resize", <<WIDTH, HEIGHT>>, ""),
       Ins("style", "extent", <<WIDTH, HEIGHT>>, "") >>

\* BaseCardType.resize_output: resize the finished card to the output size
resize_output(c) ==
    << Ins("outsize", "resize", <<WIDTH, HEIGHT>>, ""),
       Ins("outsize", "extent", <<WIDTH, HEIGHT>>, "") >>

\* create()'s command with the text groups placed before the borders
create_command_text_first(c, m, title_width) ==
    << Ins("load", "convert", <<>>, "") >>
    \o resize_and_style(c)
    \o << Ins("interior", "resize", <<WIDTH - (2 * c.border_size)>>, ""),
          Ins("extent", "extent", <<WIDTH, HEIGHT>>, "") >>
    \o title_text_commands(c, m)
    \o index_text_commands(c, m, title_width)
    \o border_commands(c)
    \o bottom_border_commands(c)
    \o resize_output(c)
    \o << Ins("output", "write", <<>>, "") >>

\* The command create() joins and hands to image_magick.run
create_command(c, m, title_width) ==
    << Ins("load", "convert", <<>>, "") >>
    \o resize_and_style(c)
    \o << Ins("interior", "resize", <<WIDTH - (2 * c.border_size)>>, ""),
          Ins("extent", "extent", <<WIDTH, HEIGHT>>, "") >>
    \o border_commands(c)
    \o bottom_border_commands(c)
    \o title_text_commands(c, m)
    \o index_text_commands(c, m, title_width)
    \o resize_output(c)
    \o << Ins("output", "write", <<>>, "") >>

-----------------------------------------------------------------------------
\* The text metrics of the engine

\* Width of one annotated text at point size ps: met holds the widths at the
\* base point sizes (150 * font_size for the title, 70 for the index text);
\* width scales linearly in point size and is reported in whole pixels.
AnnotatedWidth(c, met, text, ps) ==
    LET base == IF text = "title" THEN met.title
                ELSE IF text = "season" THEN met.season ELSE met.episode
        basepoint == IF text = "title" THEN 150 * c.font_size ELSE 70
        w == RFloor(RMul(RInt(base), RDiv(ps, RInt(basepoint))))
    IN  IF w < 0 THEN 0 ELSE w

\* The point size in force in a text command list (each sets it once)
PointSizeOf(cmds) ==
    LET i == CHOOSE k \in 1..Len(cmds) : cmds[k].op = "pointsize" IN cmds[i].args

RECURSIVE SumWidths(_, _, _, _)
SumWidths(c, met, cmds, k) ==
    IF k = 0 THEN 0
    ELSE SumWidths(c, met, cmds, k - 1)
         + (IF cmds[k].op = "annotate"
            THEN AnnotatedWidth(c, met, cmds[k].text, PointSizeOf(cmds)) ELSE 0)

RECURSIVE MaxWidths(_, _, _, _)
MaxWidths(c, met, cmds, k) ==
    IF k = 0 THEN 0
    ELSE LET rest == MaxWidths(c, met, cmds, k - 1)
             here == IF cmds[k].op = "annotate"
                     THEN AnnotatedWidth(c, met, cmds[k].text, PointSizeOf(cmds)) ELSE 0
         IN  IF here > rest THEN here ELSE rest

\* get_text_dimensions(text_command, width=mode): the width the commands
\* would occupy; an empty command list measures 0
get_text_dimensions(c, met, cmds, mode) ==
    IF mode = "sum" THEN SumWidths(c, met, cmds, Len(cmds))
    ELSE MaxWidths(c, met, cmds, Len(cmds))

-----------------------------------------------------------------------------
\* MarvelTitleCard: construction and create()

\* Configurations __init__ accepts (title text already escaped)
Cards ==
    [ title_text : {"", "TITLE"},
      hide_season_text : BOOLEAN,
      hide_episode_text : BOOLEAN,
      font_size : {1},
      font_vertical_shift : {0},
      border_size : {0, DEFAULT_BORDER_SIZE, 1600, 1700},
      episode_text_position : {"compact", "fixed"},
      fit_text : BOOLEAN,
      hide_border : BOOLEAN,
      text_box_height : {DEFAULT_TEXT_BOX_HEIGHT} ]

\* Widths the engine reports at modifier 1.0
Metrics == [ title : {1000, 2690, 3000}, season : {150}, episode : {250} ]

\* ---- YAML documents of SeriesYamlWriter
\* A dictionary with no key
EmptyMap == [k \in {} |-> {}]

\* A top-level section of a YAML document: not there, there with no value
\* (None), or a dictionary
Absent == [kind |-> "absent", map |-> EmptyMap]
Null == [kind |-> "null", map |-> EmptyMap]
Map(m) == [kind |-> "map", map |-> m]

\* A YAML document: its 'libraries' and 'series' sections and whether it has
\* any other top-level key
Doc(l, s, o) == [libraries |-> l, series |-> s, other |-> o]
EmptyDoc == Doc(Absent, Absent, FALSE)

\* The file: missing, unreadable, holding a duplicate key, blank, or a document
File(state, doc) == [state |-> state, doc |-> doc]

\* SeriesYamlWriter variables while cards are built
YamlIdle ==
    /\ ycfg = [sync_mode |-> "sync", compact_mode |-> TRUE,
               volume_map |-> <<>>, template |-> ""]
    /\ yfile = File("missing", EmptyDoc)
    /\ ysource = "off"
    /\ youtcome = "none"
    /\ existing = File("missing", EmptyDoc)
    /\ applied = <<>>
    /\ built = EmptyDoc
    /\ incoming = EmptyDoc
    /\ ylog = <<>>
    /\ updates = 0

\* Genre-build variables while a title card is built
GenreIdle ==
    /\ gpc = [b \in {1, 2} |-> "off"]
    /\ fs = [p \in {"source1", "source2", "resized", "swg", "output1", "output2"} |-> 0]
    /\ genre = [b \in {1, 2} |-> "plain"]
    /\ errors = [b \in {1, 2} |-> FALSE]
    /\ stderr_seen = [b \in {1, 2} |-> FALSE]
    /\ produced = [b \in {1, 2} |-> {}]
    /\ unlinked = [b \in {1, 2} |-> <<>>]

\* __init__
InitCard ==
    /\ card \in Cards
    /\ metrics \in Metrics
    /\ source_exists \in BOOLEAN
    /\ font_size_modifier = <<1, 1>>
    /\ title_text_dimensions = 0
    /\ index_text_dimensions = 0
    /\ mpc = "idle"
    /\ commands = <<>>
    /\ engine_log = <<>>
    /\ card_written = FALSE
    /\ builds = 0
    /\ GenreIdle
    /\ YamlIdle

\* create(), first query: the title text is measured
MeasureTitle ==
    /\ mpc \in {"idle", "done", "raised"}
    /\ builds < MaxBuilds
    /\ title_text_dimensions' =
           get_text_dimensions(card, metrics,
                               title_text_commands(card, font_size_modifier), "max")
    /\ engine_log' = <<"measure_title">>
    /\ mpc' = IF card.fit_text THEN "fit" ELSE "build"
    /\ UNCHANGED <<card, metrics, source_exists, font_size_modifier,
                   index_text_dimensions, commands, card_written, builds, gvars, yvars>>

\* The fit decision taken once both widths are known: the next position of
\* create() and the modifier it assigns
FitText(c, m, title_width, index_width) ==
    LET width == title_width + index_width
        margin == 20 * (2 - (IF c.hide_season_text THEN 1 ELSE 0)
                          - (IF c.hide_episode_text THEN 1 ELSE 0))
        text_width == width + margin
        max_width == WIDTH - (2 * c.border_size)
    IN  IF text_width > max_width
        THEN IF text_width = 0
             THEN [pc |-> "raised", modifier |-> m]        \* ZeroDivisionError
             ELSE [pc |-> "remeasure", modifier |-> Rat(max_width, text_width)]
        ELSE [pc |-> "build", modifier |-> m]

\* create() with fit_text: the index text is measured, the font scaled
MeasureIndex ==
    /\ mpc = "fit"
    /\ LET dims == get_text_dimensions(card, metrics,
                       index_text_commands(card, font_size_modifier,
                                           title_text_dimensions), "sum")
           fit == FitText(card, font_size_modifier, title_text_dimensions, dims)
       IN  /\ index_text_dimensions' = dims
           /\ font_size_modifier' = fit.modifier
           /\ mpc' = fit.pc
           /\ builds' = IF fit.pc = "raised" THEN builds + 1 ELSE builds
    /\ engine_log' = Append(engine_log, "measure_index")
    /\ UNCHANGED <<card, metrics, source_exists, title_text_dimensions,
                   commands, card_written, gvars, yvars>>

\* create() after scaling with the second title measurement dropped: the
\* query is sent, its result is not stored
RemeasureTitleStale ==
    /\ mpc = "remeasure"
    /\ engine_log' = Append(engine_log, "measure_title")
    /\ mpc' = "build"
    /\ UNCHANGED <<card, metrics, source_exists, font_size_modifier,
                   title_text_dimensions, index_text_dimensions, commands,
                   card_written, builds, gvars, yvars>>

\* create() after scaling: the title text is measured again
RemeasureTitle ==
    /\ mpc = "remeasure"
    /\ title_text_dimensions' =
           get_text_dimensions(card, metrics,
                               title_text_commands(card, font_size_modifier), "max")
    /\ engine_log' = Append(engine_log, "measure_title")
    /\ mpc' = "build"
    /\ UNCHANGED <<card, metrics, source_exists, font_size_modifier,
                   index_text_dimensions, commands, card_written, builds, gvars, yvars>>

\* create(), last step: the command is joined and run; the engine writes the
\* card unless it cannot open the source
RunCard ==
    /\ mpc = "build"
    /\ commands' = Append(commands,
                          create_command(card, font_size_modifier,
                                         title_text_dimensions))
    /\ engine_log' = Append(engine_log, "run")
    /\ card_written' = (card_written \/ source_exists)
    /\ mpc' = "done"
    /\ builds' = builds + 1
    /\ UNCHANGED <<card, metrics, source_exists, font_size_modifier,
                   title_text_dimensions, index_text_dimensions, gvars, yvars>>

NextCard == MeasureTitle \/ MeasureIndex \/ RemeasureTitle \/ RunCard

SpecCard == InitCard /\ [][NextCard]_vars

-----------------------------------------------------------------------------
\* GenreMaker builds and the ImageMagick interface

Builds == {1, 2}

\* Class attributes: every GenreMaker object uses these two paths
RESIZED_SOURCE == "resized"
SOURCE_WITH_GRADIENT == "swg"

\* self.source and self.output of build b
Source(b) == IF b = 1 THEN "source1" ELSE "source2"
Output(b) == IF b = 1 THEN "output1" ELSE "output2"

\* What the process started by a run can do: succeed, fail with a message
\* on stderr, or not start at all (Popen raises OSError)
Outcomes == {"ok", "stderr", "raise"}

\* ImageMagickInterface.run on a command that reads input and writes output:
\* command_split raises ValueError on text with an unbalanced quote, Popen
\* may raise; otherwise (stdout, stderr) is returned and nothing else.  The
\* engine writes the output only if it succeeds and can open the input.
run(fsys, input, output, text, outcome) ==
    IF text = "quote" \/ outcome = "raise"
    THEN [fs |-> fsys, stderr |-> FALSE, raised |-> TRUE, wrote |-> FALSE]
    ELSE IF outcome = "ok" /\ fsys[input] # 0
    THEN [fs |-> [fsys EXCEPT ![output] = fsys[input]],
          stderr |-> FALSE, raised |-> FALSE, wrote |-> TRUE]
    ELSE [fs |-> fsys, stderr |-> TRUE, raised |-> FALSE, wrote |-> FALSE]

\* delete_intermediate_images with unlink(missing_ok=False): the first path
\* that does not exist raises FileNotFoundError
delete_intermediate_images_strict(fsys, paths) ==
    IF \E p \in paths : fsys[p] = 0
    THEN [fs |-> fsys, raised |-> TRUE]
    ELSE [fs |-> [p \in DOMAIN fsys |-> IF p \in paths THEN 0 ELSE fsys[p]],
          raised |-> FALSE]

\* ImageMagickInterface.delete_intermediate_images: unlink(missing_ok=True)
delete_intermediate_images(fsys, paths) ==
    [fs |-> [p \in DOMAIN fsys |-> IF p \in paths THEN 0 ELSE fsys[p]],
     raised |-> FALSE]

\* Card-build variables while genre cards are built
CardIdle ==
    /\ card = CHOOSE c \in Cards : TRUE
    /\ metrics = CHOOSE m \in Metrics : TRUE
    /\ source_exists = FALSE
    /\ font_size_modifier = <<1, 1>>
    /\ title_text_dimensions = 0
    /\ index_text_dimensions = 0
    /\ mpc = "off"
    /\ commands = <<>>
    /\ engine_log = <<>>
    /\ card_written = FALSE
    /\ builds = 0

\* Two GenreMaker objects with different sources and outputs; a source may
\* be missing, a genre text may hold an unbalanced quote
InitGenre ==
    /\ gpc = [b \in Builds |-> "start"]
    /\ \E present \in SUBSET Builds :
         fs = [p \in {"source1", "source2", "resized", "swg", "output1", "output2"} |->
                 IF p = "source1" /\ 1 \in present THEN 1
                 ELSE IF p = "source2" /\ 2 \in present THEN 2 ELSE 0]
    /\ genre \in [Builds -> {"plain", "quote"}]
    /\ errors = [b \in Builds |-> FALSE]
    /\ stderr_seen = [b \in Builds |-> FALSE]
    /\ produced = [b \in Builds |-> {}]
    /\ unlinked = [b \in Builds |-> <<>>]
    /\ CardIdle
    /\ YamlIdle

\* create(): the source does not exist; error() is logged, None returned
GenreMissing(b) ==
    /\ gpc[b] = "start"
    /\ fs[Source(b)] = 0
    /\ errors' = [errors EXCEPT ![b] = TRUE]
    /\ gpc' = [gpc EXCEPT ![b] = "failed"]
    /\ UNCHANGED <<fs, genre, stderr_seen, produced, unlinked, mvars, yvars>>

\* One run of create(): its result is dropped, an exception leaves create()
Step(b, input, output, text, outcome, next) ==
    LET r == run(fs, input, output, text, outcome)
    IN  /\ fs' = r.fs
        /\ gpc' = [gpc EXCEPT ![b] = IF r.raised THEN "raised" ELSE next]
        /\ stderr_seen' = [stderr_seen EXCEPT ![b] = @ \/ r.stderr]
        /\ produced' = [produced EXCEPT ![b] =
                          IF r.wrote /\ output \in {RESIZED_SOURCE, SOURCE_WITH_GRADIENT}
                          THEN @ \cup {output} ELSE @]
        /\ UNCHANGED <<genre, errors, unlinked, mvars, yvars>>

\* create() -> __resize_source
GenreResize(b) ==
    /\ gpc[b] = "start"
    /\ fs[Source(b)] # 0
    /\ \E outcome \in Outcomes :
         Step(b, Source(b), RESIZED_SOURCE, "plain", outcome, "gradient")

\* create() -> __add_gradient
GenreGradient(b) ==
    /\ gpc[b] = "gradient"
    /\ \E outcome \in Outcomes :
         Step(b, RESIZED_SOURCE, SOURCE_WITH_GRADIENT, "plain", outcome, "text")

\* create() -> __add_text_and_border: the command holds the genre text
GenreText(b) ==
    /\ gpc[b] = "text"
    /\ \E outcome \in Outcomes :
         Step(b, SOURCE_WITH_GRADIENT, Output(b), genre[b], outcome, "delete")

\* create(): the intermediate files are deleted, None returned
GenreDelete(b) ==
    /\ gpc[b] = "delete"
    /\ LET d == delete_intermediate_images(fs, {RESIZED_SOURCE, SOURCE_WITH_GRADIENT})
       IN  /\ fs' = d.fs
           /\ gpc' = [gpc EXCEPT ![b] = IF d.raised THEN "raised" ELSE "done"]
           /\ unlinked' = [unlinked EXCEPT ![b] =
                  << {p \in {RESIZED_SOURCE, SOURCE_WITH_GRADIENT} : fs[p] # 0} >>]
    /\ UNCHANGED <<genre, errors, stderr_seen, produced, mvars, yvars>>

NextGenre ==
    \E b \in Builds :
        \/ GenreMissing(b)
        \/ GenreResize(b)
        \/ GenreGradient(b)
        \/ GenreText(b)
        \/ GenreDelete(b)

SpecGenre == InitGenre /\ [][NextGenre]_vars

-----------------------------------------------------------------------------
\* SeriesYamlWriter: the series YAML file and its updates from Sonarr or Plex

\* d[k] = v and del d[k] on a dictionary
Put(m, k, v) == (k :> v) @@ m
Del(m, k) == [x \in DOMAIN m \ {k} |-> m[x]]

\* A value below a library name: a scalar, or a scalar under nested keys
Scalar(p) == [keys |-> <<>>, leaf |-> p]
\* {'path': v}
PathOf(v) == [keys |-> <<"path">> \o v.keys, leaf |-> v.leaf]

\* Series keys: the full name, or "name [sonarr:id]" / "name [imdb:id]"
Key(full_name) == <<full_name, "", 0>>
SonarrKey(name, id) == <<name, "sonarr", id>>
ImdbKey(name, id) == <<name, "imdb", id>>

\* A series entry; "" and 0 and <<>> stand for a key the entry does not
\* have, flow is the style the entry is written in
Entry(library, template, name, year, media_directory, flow) ==
    [library |-> library, template |-> template, name |-> name, year |-> year,
     media_directory |-> media_directory, flow |-> flow]

\* A path is <<base, name>>; a prefix is matched as the whole base
RECURSIVE ConvertPathFrom(_, _, _)
ConvertPathFrom(volume_map, path, i) ==
    IF i > Len(volume_map) THEN path
    ELSE LET adj_path == IF path[1] = volume_map[i].source_base
                         THEN <<volume_map[i].tcm_base, path[2]>>
                         ELSE path
         IN  IF adj_path # path THEN adj_path
             ELSE ConvertPathFrom(volume_map, path, i + 1)

\* __convert_path
convert_path(volume_map, path) == ConvertPathFrom(volume_map, path, 1)

\* The files named by 'yaml' exclusions: one lists a series, one is blank,
\* any other cannot be opened
ExclusionFile(value) ==
    IF value = "listed.yml"
    THEN File("doc", Doc(Absent,
                         Map(Put(EmptyMap, Key("B (2021)"),
                                 Entry("TV", "", "", 0, <<>>, FALSE))),
                         FALSE))
    ELSE IF value = "blank.yml" THEN File("blank", EmptyDoc)
    ELSE File("missing", EmptyDoc)

\* str.lower() on the labels in use
Lower(label) ==
    IF label = "Series" THEN "series"
    ELSE IF label = "YAML" THEN "yaml" ELSE label

\* del yaml['series'][k] for every k of keys that is there
DelSeries(yaml, keys) ==
    [yaml EXCEPT !.series.map = [k \in DOMAIN @ \ keys |-> @[k]]]

\* The loop of __apply_exclusion from the i-th exclusion on
RECURSIVE ApplyFrom(_, _, _, _)
ApplyFrom(yaml, exclusions, i, log) ==
    IF i > Len(exclusions)
    THEN [yaml |-> yaml, raised |-> FALSE, log |-> log]
    ELSE
    LET exclusion == exclusions[i] IN
    IF ~exclusion.is_dict
    THEN ApplyFrom(yaml, exclusions, i + 1, Append(log, "Invalid exclusion"))
    ELSE
    LET label == Lower(exclusion.label)
        value == exclusion.value
    IN  IF label = "yaml"
        THEN LET read_yaml == ExclusionFile(value) IN
             IF read_yaml.state \in {"missing", "invalid", "duplicate"}
             THEN ApplyFrom(yaml, exclusions, i + 1,
                            Append(log, "Cannot read exclusion file"))
             ELSE IF read_yaml.state = "blank" \/ read_yaml.doc.series.kind = "null"
             THEN [yaml |-> yaml, raised |-> TRUE, log |-> log]   \* AttributeError
             ELSE ApplyFrom(DelSeries(yaml, DOMAIN read_yaml.doc.series.map),
                            exclusions, i + 1, log)
        ELSE IF label = "series"
        THEN ApplyFrom(DelSeries(yaml, {Key(value)}), exclusions, i + 1, log)
        ELSE ApplyFrom(yaml, exclusions, i + 1, log)

\* __apply_exclusion
apply_exclusion(yaml, exclusions) ==
    IF Len(exclusions) = 0 \/ DOMAIN yaml.series.map = {}
    THEN [yaml |-> yaml, raised |-> FALSE, log |-> <<>>]
    ELSE ApplyFrom(yaml, exclusions, 1, <<>>)

\* __write: the document the file holds afterwards
write(cfg, yaml) ==
    IF cfg.compact_mode
    THEN [yaml EXCEPT !.series =
              Map([k \in DOMAIN yaml.series.map |->
                      [yaml.series.map[k] EXCEPT !.flow = TRUE]])]
    ELSE yaml

\* len() of a loaded document
DocLen(doc) ==
    (IF doc.libraries.kind = "absent" THEN 0 ELSE 1)
    + (IF doc.series.kind = "absent" THEN 0 ELSE 1)
    + (IF doc.other THEN 1 ELSE 0)

\* __append with the existing-key tests left out: incoming entries replace
\* the entries of the file
append_overwrite(cfg, file, yaml) ==
    IF file.state = "missing"
    THEN [file |-> File("doc", write(cfg, yaml)), raised |-> FALSE, log |-> <<>>]
    ELSE IF file.state \in {"duplicate", "invalid"}
    THEN [file |-> file, raised |-> FALSE, log |-> <<"Cannot sync to file">>]
    ELSE IF file.state = "blank" \/ DocLen(file.doc) = 0
    THEN [file |-> File("doc", write(cfg, yaml)), raised |-> FALSE, log |-> <<>>]
    ELSE
    LET existing_yaml == file.doc
        series == IF existing_yaml.series.kind = "map"
                  THEN existing_yaml.series.map ELSE EmptyMap
        libraries == existing_yaml.libraries.map
        new_libraries == yaml.libraries.map
        new_series == yaml.series.map
    IN  IF new_libraries # EmptyMap /\ existing_yaml.libraries.kind # "map"
        THEN [file |-> file, raised |-> TRUE, log |-> <<>>]
        ELSE
        [file |-> File("doc",
            Doc(IF existing_yaml.libraries.kind = "map"
                THEN Map([k \in DOMAIN libraries \cup DOMAIN new_libraries |->
                            IF k \in DOMAIN new_libraries
                            THEN PathOf(new_libraries[k]) ELSE libraries[k]])
                ELSE existing_yaml.libraries,
                Map([k \in DOMAIN series \cup DOMAIN new_series |->
                        IF k \in DOMAIN new_series
                        THEN [new_series[k] EXCEPT !.flow = cfg.compact_mode]
                        ELSE series[k]]),
                existing_yaml.other)),
         raised |-> FALSE, log |-> <<>>]

\* __append: the file afterwards, whether an exception left the method, and
\* the errors logged
append(cfg, file, yaml) ==
    IF file.state = "missing"
    THEN [file |-> File("doc", write(cfg, yaml)), raised |-> FALSE, log |-> <<>>]
    ELSE IF file.state \in {"duplicate", "invalid"}
    THEN [file |-> file, raised |-> FALSE, log |-> <<"Cannot sync to file">>]
    ELSE IF file.state = "blank" \/ DocLen(file.doc) = 0
    THEN [file |-> File("doc", write(cfg, yaml)), raised |-> FALSE, log |-> <<>>]
    ELSE
    LET existing_yaml == file.doc
        \* existing_yaml['series'] = {} when the section is None or not there
        series == IF existing_yaml.series.kind = "map"
                  THEN existing_yaml.series.map ELSE EmptyMap
        libraries == existing_yaml.libraries.map
        new_libraries == yaml.libraries.map
        new_series == yaml.series.map
    IN  \* the first library of the loop: .keys() of None, or a new key
        \* assigned into existing_yaml['libraries'] that is not there
        IF new_libraries # EmptyMap /\ existing_yaml.libraries.kind # "map"
        THEN [file |-> file, raised |-> TRUE, log |-> <<>>]
        ELSE
        [file |-> File("doc",
            Doc(IF existing_yaml.libraries.kind = "map"
                THEN Map([k \in DOMAIN libraries \cup DOMAIN new_libraries |->
                            IF k \in DOMAIN libraries
                            THEN libraries[k] ELSE PathOf(new_libraries[k])])
                ELSE existing_yaml.libraries,
                Map([k \in DOMAIN series \cup DOMAIN new_series |->
                        IF k \in DOMAIN series
                        THEN series[k]
                        ELSE [new_series[k] EXCEPT !.flow = cfg.compact_mode]]),
                existing_yaml.other)),
         raised |-> FALSE, log |-> <<>>]

\* series_yaml of __get_yaml_from_sonarr after the first i series
RECURSIVE SonarrSeriesYaml(_, _, _, _)
SonarrSeriesYaml(cfg, all_series, plex_libraries, i) ==
    IF i = 0 THEN EmptyMap
    ELSE
    LET series_yaml == SonarrSeriesYaml(cfg, all_series, plex_libraries, i - 1)
        series_info == all_series[i].info
        sonarr_path == convert_path(cfg.volume_map, all_series[i].path)
        matches == {j \in 1..Len(plex_libraries) :
                        plex_libraries[j].path = sonarr_path[1]}
        library == IF matches = {} THEN ""
                   ELSE plex_libraries[CHOOSE j \in matches :
                                          \A h \in matches : j <= h].library
        dup == Key(series_info.full_name) \in DOMAIN series_yaml
        key == IF dup THEN SonarrKey(series_info.name, series_info.id)
               ELSE Key(series_info.full_name)
    IN  Put(series_yaml, key,
            Entry(library, cfg.template,
                  IF dup THEN series_info.name ELSE "",
                  IF dup THEN series_info.year ELSE 0,
                  IF sonarr_path[2] # series_info.legal_path
                  THEN sonarr_path ELSE <<>>,
                  FALSE))

\* libraries_yaml of __get_yaml_from_sonarr after the first i libraries
RECURSIVE SonarrLibrariesYaml(_, _)
SonarrLibrariesYaml(plex_libraries, i) ==
    IF i = 0 THEN EmptyMap
    ELSE Put(SonarrLibrariesYaml(plex_libraries, i - 1),
             plex_libraries[i].library,
             PathOf(Scalar(plex_libraries[i].path)))

\* __get_yaml_from_sonarr: the YAML before and after the exclusions
get_yaml_from_sonarr(cfg, all_series, plex_libraries, exclusions) ==
    IF \E i \in 1..Len(exclusions) : ~exclusions[i].is_dict
    THEN \* excluded_tags: .items() of an exclusion that is no dictionary
         [built |-> EmptyDoc, yaml |-> EmptyDoc, raised |-> TRUE, log |-> <<>>]
    ELSE IF Len(all_series) = 0
    THEN [built |-> EmptyDoc, yaml |-> EmptyDoc, raised |-> FALSE, log |-> <<>>]
    ELSE
    LET yaml == Doc(Map(SonarrLibrariesYaml(plex_libraries, Len(plex_libraries))),
                    Map(SonarrSeriesYaml(cfg, all_series, plex_libraries,
                                         Len(all_series))),
                    FALSE)
        r == apply_exclusion(yaml, exclusions)
    IN  [built |-> yaml, yaml |-> r.yaml, raised |-> r.raised, log |-> r.log]

\* series_yaml of __get_yaml_from_plex after the first i series
RECURSIVE PlexSeriesYaml(_, _, _)
PlexSeriesYaml(cfg, all_series, i) ==
    IF i = 0 THEN EmptyMap
    ELSE
    LET series_yaml == PlexSeriesYaml(cfg, all_series, i - 1)
        series_info == all_series[i].info
        series_path == convert_path(cfg.volume_map, all_series[i].path)
        dup == Key(series_info.full_name) \in DOMAIN series_yaml
        key == IF dup THEN ImdbKey(series_info.name, series_info.id)
               ELSE Key(series_info.full_name)
    IN  Put(series_yaml, key,
            Entry(all_series[i].library, cfg.template,
                  IF dup THEN series_info.name ELSE "",
                  IF dup THEN series_info.year ELSE 0,
                  IF series_path[2] # series_info.legal_path
                  THEN series_path ELSE <<>>,
                  FALSE))

\* libraries_yaml of __get_yaml_from_plex after the first i library paths
RECURSIVE PlexLibrariesYaml(_, _, _)
PlexLibrariesYaml(cfg, library_paths, i) ==
    IF i = 0 THEN EmptyMap
    ELSE Put(PlexLibrariesYaml(cfg, library_paths, i - 1),
             library_paths[i].library,
             PathOf(Scalar(convert_path(cfg.volume_map,
                                        <<library_paths[i].path, "">>)[1])))

\* __get_yaml_from_plex: the YAML before and after the exclusions
get_yaml_from_plex(cfg, all_series, library_paths, exclusions) ==
    IF Len(all_series) = 0
    THEN [built |-> EmptyDoc, yaml |-> EmptyDoc, raised |-> FALSE, log |-> <<>>]
    ELSE
    LET yaml == Doc(Map(PlexLibrariesYaml(cfg, library_paths, Len(library_paths))),
                    Map(PlexSeriesYaml(cfg, all_series, Len(all_series))),
                    FALSE)
        r == apply_exclusion(yaml, exclusions)
    IN  [built |-> yaml, yaml |-> r.yaml, raised |-> r.raised, log |-> r.log]

\* ---- what the writer is given
SeriesA == [full_name |-> "A (2020)", name |-> "A", year |-> 2020, id |-> 1,
            legal_path |-> "A (2020)"]
SeriesA2 == [full_name |-> "A (2020)", name |-> "A", year |-> 2020, id |-> 2,
             legal_path |-> "A (2020)"]
SeriesB == [full_name |-> "B (2021)", name |-> "B", year |-> 2021, id |-> 3,
            legal_path |-> "B (2021)"]

\* Results of sonarr_interface.get_all_series
SonarrAllSeries ==
    LET a == [info |-> SeriesA, path |-> <<"/data", "A (2020)">>]
        a2 == [info |-> SeriesA2, path |-> <<"/anime", "A again">>]
        b == [info |-> SeriesB, path |-> <<"/tv", "B (2021)">>]
    IN  { <<>>, <<a>>, <<a, b>>, <<a, a2>> }

\* Results of plex_interface.get_all_series
PlexAllSeries ==
    LET a == [info |-> SeriesA, path |-> <<"/data", "A (2020)">>, library |-> "TV"]
        a2 == [info |-> SeriesA2, path |-> <<"/anime", "A again">>, library |-> "Anime"]
        b == [info |-> SeriesB, path |-> <<"/tv", "B (2021)">>, library |-> "TV"]
    IN  { <<>>, <<a, b>>, <<a, a2>> }

\* The plex_libraries argument (TCM path -> library) and the result of
\* plex_interface.get_library_paths (library -> path), in dictionary order
PlexLibraries ==
    { <<>>,
      <<[path |-> "/tv", library |-> "TV"]>>,
      <<[path |-> "/tv", library |-> "TV"], [path |-> "/anime", library |-> "Anime"]>> }
LibraryPaths ==
    { <<>>,
      <<[library |-> "TV", path |-> "/data"], [library |-> "Anime", path |-> "/anime"]>> }

VolumeMaps == { <<>>, <<[source_base |-> "/data", tcm_base |-> "/tv"]>> }

Excl(label, value) == [is_dict |-> TRUE, label |-> label, value |-> value]
NotADict == [is_dict |-> FALSE, label |-> "", value |-> "B (2021)"]

\* The exclusions argument
Exclusions ==
    { <<>>,
      <<Excl("series", "A (2020)")>>,
      <<Excl("yaml", "listed.yml")>>,
      <<NotADict, Excl("series", "A (2020)")>>,
      <<Excl("yaml", "gone.yml"), Excl("Series", "B (2021)")>>,
      <<Excl("yaml", "blank.yml"), Excl("series", "A (2020)")>>,
      <<Excl("tag", "skip"), Excl("series", "B (2021)")>> }

\* What self.file may hold before the first update
Files ==
    LET old == Entry("Old", "", "", 0, <<>>, FALSE) IN
    { File("missing", EmptyDoc), File("invalid", EmptyDoc),
      File("duplicate", EmptyDoc), File("blank", EmptyDoc),
      File("doc", Doc(Map(Put(EmptyMap, "TV", PathOf(Scalar("/old")))),
                      Map(Put(EmptyMap, Key("A (2020)"), old)), FALSE)),
      File("doc", Doc(Absent, Map(Put(EmptyMap, Key("B (2021)"), old)), FALSE)),
      File("doc", Doc(Map(EmptyMap), Null, FALSE)),
      File("doc", Doc(Null, Map(EmptyMap), TRUE)),
      File("doc", Doc(Absent, Absent, TRUE)) }

\* __init__: sync_mode is 'sync' or 'append' (anything else raises ValueError)
InitYaml ==
    /\ ycfg \in [sync_mode : {"sync", "append"}, compact_mode : BOOLEAN,
                 volume_map : VolumeMaps, template : {"", "anime"}]
    /\ yfile \in Files
    /\ ysource = "none"
    /\ youtcome = "none"
    /\ existing = File("missing", EmptyDoc)
    /\ applied = <<>>
    /\ built = EmptyDoc
    /\ incoming = EmptyDoc
    /\ ylog = <<>>
    /\ updates = 0
    /\ card = CHOOSE c \in Cards : TRUE
    /\ metrics = CHOOSE m \in Metrics : TRUE
    /\ source_exists = FALSE
    /\ font_size_modifier = <<1, 1>>
    /\ title_text_dimensions = 0
    /\ index_text_dimensions = 0
    /\ mpc = "off"
    /\ commands = <<>>
    /\ engine_log = <<>>
    /\ card_written = FALSE
    /\ builds = 0
    /\ GenreIdle

\* The end of update_from_sonarr and update_from_plex: the YAML is written
\* or appended unless building it raised
Finish(source, got, exclusions) ==
    LET r == IF got.raised
             THEN [file |-> yfile, raised |-> TRUE, log |-> <<>>]
             ELSE IF ycfg.sync_mode = "sync"
             THEN [file |-> File("doc", write(ycfg, got.yaml)),
                   raised |-> FALSE, log |-> <<>>]
             ELSE append(ycfg, yfile, got.yaml)
    IN  /\ yfile' = r.file
        /\ ysource' = source
        /\ youtcome' = IF got.raised THEN "raised_yaml"
                       ELSE IF r.raised THEN "raised_append" ELSE "ok"
        /\ existing' = yfile
        /\ applied' = exclusions
        /\ built' = got.built
        /\ incoming' = got.yaml
        /\ ylog' = got.log \o r.log
        /\ updates' = updates + 1
        /\ UNCHANGED <<ycfg, mvars, gvars>>

\* update_from_sonarr
update_from_sonarr ==
    /\ ysource # "off"
    /\ updates < MaxUpdates
    /\ \E all_series \in SonarrAllSeries, plex_libraries \in PlexLibraries,
          exclusions \in Exclusions :
         Finish("sonarr",
                get_yaml_from_sonarr(ycfg, all_series, plex_libraries, exclusions),
                exclusions)

\* update_from_plex; a filter that is no list ends the program
update_from_plex ==
    /\ ysource # "off"
    /\ updates < MaxUpdates
    /\ \E filter_is_list \in BOOLEAN :
         IF ~filter_is_list
         THEN /\ ysource' = "plex"
              /\ youtcome' = "exit"
              /\ existing' = yfile
              /\ applied' = <<>>
              /\ built' = EmptyDoc
              /\ incoming' = EmptyDoc
              /\ ylog' = <<"Invalid Plex library filter list">>
              /\ updates' = updates + 1
              /\ UNCHANGED <<ycfg, yfile, mvars, gvars>>
         ELSE \E all_series \in PlexAllSeries, library_paths \in LibraryPaths,
                 exclusions \in Exclusions :
                Finish("plex",
                       get_yaml_from_plex(ycfg, all_series, library_paths, exclusions),
                       exclusions)

NextYaml == update_from_sonarr \/ update_from_plex

SpecYaml == InitYaml /\ [][NextYaml]_vars

-----------------------------------------------------------------------------
\* Properties of the title card build (checked under SpecCard)

\* Widths at modifier 1.0 of what the card shows
BaseTitleWidth == IF card.title_text = "" THEN 0 ELSE metrics.title
BaseIndexWidth == (IF card.hide_season_text THEN 0 ELSE metrics.season)
                  + (IF card.hide_episode_text THEN 0 ELSE metrics.episode)
Margin == 20 * Cardinality({h \in {"season", "episode"} :
                              IF h = "season" THEN ~card.hide_season_text
                              ELSE ~card.hide_episode_text})
MaxWidth == WIDTH - 2 * card.border_size

\* create() is past the text-fit step of a build with fit_text
Resolved == card.fit_text /\ mpc \in {"remeasure", "build", "done"}

\* C1, on the first create() of a card whose interior width is positive:
\* with fit_text, once the modifier is resolved, (title width + index width)
\* scaled linearly to the modifier, plus 20 per shown index field, is at most
\* WIDTH - 2*border_size.
\* Not an invariant of create(): the margin is not scaled with the font.
C1_FitsInterior ==
    (Resolved /\ MaxWidth > 0 /\ builds = 0) =>
        (BaseTitleWidth + BaseIndexWidth) * font_size_modifier[1]
            + Margin * font_size_modifier[2]
        <= MaxWidth * font_size_modifier[2]

\* C2: font_size_modifier is 1.0 on a card no create() has touched, and in
\* every reachable state it is neither negative nor greater than 1.0,
\* whatever border_size is configured.
\* Not an invariant of create(): a border wider than half the canvas makes
\* max_width, and with it the modifier, negative.
C2_ModifierInUnitRange ==
    /\ (mpc = "idle" /\ builds = 0) => font_size_modifier = <<1, 1>>
    /\ font_size_modifier[2] > 0
    /\ 0 <= font_size_modifier[1]
    /\ font_size_modifier[1] <= font_size_modifier[2]

\* C3: when the source image does not exist, the build makes no engine call
\* (no measurement query, no run) and writes no file.
\* Not an invariant of MarvelTitleCard.create(): it never looks at the source.
C3_MissingSourceNoEngineCall ==
    ~source_exists => (engine_log = <<>> /\ commands = <<>> /\ ~card_written)

\* Position of each instruction group in the order create() must keep
GroupRank(g) ==
    CASE g = "load" -> 1
      [] g = "style" -> 2
      [] g = "interior" -> 3
      [] g = "extent" -> 4
      [] g = "border" -> 5
      [] g = "box" -> 6
      [] g = "title" -> 7
      [] g = "index" -> 8
      [] g = "outsize" -> 9
      [] g = "output" -> 10

GroupsOf(cmd) == {cmd[i].grp : i \in 1..Len(cmd)}

\* C6: every command submitted by create() has its groups in the order load,
\* resize/style, interior resize, extent, border, text box, title text, index
\* text, output resize, output path: no instruction precedes one of an
\* earlier group, and the groups that are never empty are all there.
C6_GroupOrder ==
    \A k \in 1..Len(commands) :
        LET cmd == commands[k] IN
        /\ \A i, j \in 1..Len(cmd) :
               i < j => GroupRank(cmd[i].grp) <= GroupRank(cmd[j].grp)
        /\ {"load", "style", "interior", "extent", "box", "outsize", "output"}
               \subseteq GroupsOf(cmd)
        /\ cmd[1].grp = "load"
        /\ cmd[Len(cmd)].grp = "output"

\* C6 witness: a submitted command that holds all ten groups
C6_AllGroupsSubmitted ==
    \E k \in 1..Len(commands) : Cardinality(GroupsOf(commands[k])) = 10

\* C7, on cards whose interior width is positive: a second create() of the
\* same card object submits the command the first one submitted.
\* Not an invariant: the modifier of the first build is still set when the
\* second one measures.
C7_SecondBuildIdentical ==
    (Len(commands) >= 2 /\ MaxWidth > 0) => commands[2] = commands[1]

GroupOf(cmd, g) == SelectSeq(cmd, LAMBDA i : i.grp = g)

\* The border and text-box groups as the layout prescribes them
ExpectedBorder ==
    IF card.hide_border THEN <<>>
    ELSE << [grp |-> "border", op |-> "fill", args |-> <<>>, text |-> ""],
            [grp |-> "border", op |-> "draw_rectangle",
             args |-> <<0, 0, card.border_size, HEIGHT>>, text |-> ""],
            [grp |-> "border", op |-> "draw_rectangle",
             args |-> <<0, 0, WIDTH, card.border_size>>, text |-> ""],
            [grp |-> "border", op |-> "draw_rectangle",
             args |-> <<WIDTH - card.border_size, 0, WIDTH, HEIGHT>>, text |-> ""] >>

ExpectedBox ==
    << [grp |-> "box", op |-> "fill", args |-> <<>>, text |-> ""],
       [grp |-> "box", op |-> "draw_rectangle",
        args |-> <<0, HEIGHT - card.text_box_height, WIDTH, HEIGHT>>, text |-> ""] >>

\* A rectangle that spans the canvas width and reaches its bottom edge
CoversBottomEdge(ins) ==
    /\ ins.op = "draw_rectangle"
    /\ ins.args[1] <= 0 /\ ins.args[3] >= WIDTH
    /\ ins.args[4] >= HEIGHT

\* C10: the border group of every submitted command is empty exactly when
\* hide_border is set; otherwise it is a fill followed by the left, top and
\* right strips and nothing else.  No rectangle of the group covers the
\* bottom edge; the one rectangle that does is the text box
\* (0, HEIGHT - text_box_height)-(WIDTH, HEIGHT).
C10_BorderGroup ==
    \A k \in 1..Len(commands) :
        LET border == GroupOf(commands[k], "border")
            box == GroupOf(commands[k], "box")
        IN  /\ (border = <<>>) <=> card.hide_border
            /\ border = ExpectedBorder
            /\ \A i \in 1..Len(border) : ~CoversBottomEdge(border[i])
            /\ box = ExpectedBox
            /\ \E i \in 1..Len(box) : CoversBottomEdge(box[i])

\* C10 witness: a submitted command that draws the three border strips
C10_BorderDrawn ==
    \E k \in 1..Len(commands) :
        /\ ~card.hide_border
        /\ Len(GroupOf(commands[k], "border")) = 4

\* The text width the first create() of a card computes, and whether that
\* create() is past its text-fit step
BaseTextWidth == BaseTitleWidth + BaseIndexWidth + Margin
FirstBuildResolved ==
    /\ card.fit_text
    /\ \/ builds = 0 /\ mpc \in {"remeasure", "build"}
       \/ builds = 1 /\ mpc = "done"

\* The annotate instructions of a command list, and the gravity set before
\* the annotate of one text
Annotates(cmds) == SelectSeq(cmds, LAMBDA i : i.op = "annotate")
HasText(cmds, t) == \E i \in 1..Len(cmds) : cmds[i].op = "annotate" /\ cmds[i].text = t
GravityOf(cmds, t) ==
    LET i == CHOOSE k \in 1..Len(cmds) : cmds[k].op = "annotate" /\ cmds[k].text = t
    IN  cmds[i - 1].op

\* C11: every position of a build is computed from the configured
\* border_size: the interior resize width and the fit limit are
\* WIDTH - 2*border_size, the fixed-mode inset of season and episode text is
\* border_size, the left strip ends at border_size and the right strip starts
\* at WIDTH - border_size; the default 55 is used only when it is configured.
C11_CurrentBorderSize ==
    /\ \A k \in 1..Len(commands) :
         LET cmd == commands[k]
             index == Annotates(GroupOf(cmd, "index"))
             border == GroupOf(cmd, "border")
         IN  /\ GroupOf(cmd, "interior")
                  = << [grp |-> "interior", op |-> "resize",
                        args |-> <<WIDTH - 2 * card.border_size>>, text |-> ""] >>
             /\ card.episode_text_position = "fixed" =>
                  \A i \in 1..Len(index) :
                      index[i].args[1] = card.border_size /\ index[i].args[2] = 1
             /\ ~card.hide_border =>
                  /\ border[2].args[3] = card.border_size
                  /\ border[4].args[1] = WIDTH - card.border_size
    /\ FirstBuildResolved =>
         font_size_modifier =
             IF BaseTextWidth > WIDTH - 2 * card.border_size
             THEN Rat(WIDTH - 2 * card.border_size, BaseTextWidth)
             ELSE <<1, 1>>

\* C11 witness: a card with an overridden border_size was fitted and rendered
\* with border strips and fixed index text
C11_OverriddenBorderRendered ==
    /\ card.border_size # DEFAULT_BORDER_SIZE
    /\ card.episode_text_position = "fixed"
    /\ ~card.hide_border /\ ~card.hide_season_text /\ ~card.hide_episode_text
    /\ FirstBuildResolved /\ mpc = "done"
    /\ font_size_modifier # <<1, 1>>

\* C16: the index group of every submitted command is empty exactly when both
\* season and episode text are hidden; otherwise a field is annotated exactly
\* when it is not hidden, and in fixed mode the season text follows a west
\* gravity and the episode text an east gravity, both at inset border_size.
C16_IndexGroup ==
    \A k \in 1..Len(commands) :
        LET index == GroupOf(commands[k], "index") IN
        /\ (index = <<>>) <=> (card.hide_season_text /\ card.hide_episode_text)
        /\ HasText(index, "season") <=> ~card.hide_season_text
        /\ HasText(index, "episode") <=> ~card.hide_episode_text
        /\ Len(Annotates(index))
             = (IF card.hide_season_text THEN 0 ELSE 1)
               + (IF card.hide_episode_text THEN 0 ELSE 1)
        /\ card.episode_text_position = "fixed" =>
             /\ ~card.hide_season_text =>
                  /\ GravityOf(index, "season") = "gravity_west"
                  /\ \A i \in 1..Len(index) :
                       (index[i].op = "annotate" /\ index[i].text = "season")
                           => (index[i].args[1] = card.border_size /\ index[i].args[2] = 1)
             /\ ~card.hide_episode_text =>
                  /\ GravityOf(index, "episode") = "gravity_east"
                  /\ \A i \in 1..Len(index) :
                       (index[i].op = "annotate" /\ index[i].text = "episode")
                           => (index[i].args[1] = card.border_size /\ index[i].args[2] = 1)

\* C16 witness: a fixed-mode command with only the episode text shown, and the
\* card was built
C16_FixedOneFieldShown ==
    /\ Len(commands) >= 1
    /\ card.episode_text_position = "fixed"
    /\ card.hide_season_text /\ ~card.hide_episode_text
    /\ HasText(GroupOf(commands[1], "index"), "episode")


\* The command of the create() that has just returned
LastCommand == commands[Len(commands)]

\* x offset and y offset of the annotate of text t in a command list
OffsetOf(cmds, t) ==
    LET i == CHOOSE k \in 1..Len(cmds) : cmds[k].op = "annotate" /\ cmds[k].text = t
    IN  cmds[i].args

HasOp(cmds, o) == \E i \in 1..Len(cmds) : cmds[i].op = o

\* The compact-mode offset for a title of width w
CompactOffset(w) == Rat(WIDTH + w + 40, 2)

\* C13 as stated: in compact mode every shown index field is annotated at
\* (WIDTH + title_width)/2 + 20, and with the season text hidden, the episode
\* text shown and a title 1000 wide the episode offset is 2120, the season
\* text is absent and the index group sets no west gravity.
\* Not an invariant: in compact mode the episode text is the one placed with
\* west gravity.
C13_CompactNoWestGravity ==
    (mpc = "done" /\ card.episode_text_position = "compact") =>
        LET index == GroupOf(LastCommand, "index")
            ann == Annotates(index)
        IN  /\ \A i \in 1..Len(ann) :
                   <<ann[i].args[1], ann[i].args[2]>>
                       = CompactOffset(title_text_dimensions)
            /\ (card.hide_season_text /\ ~card.hide_episode_text
                    /\ title_text_dimensions = 1000) =>
                   /\ OffsetOf(index, "episode")[1] = 2120
                   /\ OffsetOf(index, "episode")[2] = 1
                   /\ ~HasText(index, "season")
                   /\ ~HasOp(index, "gravity_west")

\* C13 amended: the same, except that the gravity the index group does not
\* set is east (the season text's); the episode text follows a west gravity.
C13_CompactOffsets ==
    (mpc = "done" /\ card.episode_text_position = "compact") =>
        LET index == GroupOf(LastCommand, "index")
            ann == Annotates(index)
        IN  /\ \A i \in 1..Len(ann) :
                   <<ann[i].args[1], ann[i].args[2]>>
                       = CompactOffset(title_text_dimensions)
            /\ (card.hide_season_text /\ ~card.hide_episode_text
                    /\ title_text_dimensions = 1000) =>
                   /\ OffsetOf(index, "episode")[1] = 2120
                   /\ OffsetOf(index, "episode")[2] = 1
                   /\ ~HasText(index, "season")
                   /\ ~HasOp(index, "gravity_east")
                   /\ GravityOf(index, "episode") = "gravity_west"

\* C13 witness: the example was built: compact, season hidden, episode shown,
\* title measured 1000 wide
C13_ExampleBuilt ==
    /\ mpc = "done" /\ card.episode_text_position = "compact"
    /\ card.hide_season_text /\ ~card.hide_episode_text
    /\ title_text_dimensions = 1000
    /\ OffsetOf(GroupOf(LastCommand, "index"), "episode")[1] = 2120


\* The current create() changed the modifier: it measured the title twice
Shrunk == Len(SelectSeq(engine_log, LAMBDA q : q = "measure_title")) = 2

\* C18: when the text-fit step has shrunk the font, the command rendered is
\* built from post-shrink values: the title point size is
\* 150*font_size*modifier, the index point size is 70*modifier with the same
\* modifier, and the compact offsets come from the title width at the new
\* modifier, not from the width measured before.
C18_PostShrinkValues ==
    (mpc = "done" /\ Shrunk) =>
        LET title == GroupOf(LastCommand, "title")
            index == GroupOf(LastCommand, "index")
            ann == Annotates(index)
            width == IF card.title_text = "" THEN 0
                     ELSE AnnotatedWidth(card, metrics, "title",
                                         RMul(RInt(150 * card.font_size), font_size_modifier))
        IN  /\ title # <<>> =>
                   PointSizeOf(title) = RMul(RInt(150 * card.font_size), font_size_modifier)
            /\ index # <<>> =>
                   PointSizeOf(index) = RMul(RInt(70), font_size_modifier)
            /\ card.episode_text_position = "compact" =>
                   \A i \in 1..Len(ann) :
                       <<ann[i].args[1], ann[i].args[2]>> = CompactOffset(width)

\* C18 witness: a first build shrank the font of a compact card whose title
\* is narrower at the new modifier than it was measured before
C18_ShrunkCompactBuilt ==
    /\ mpc = "done" /\ Shrunk /\ builds = 1
    /\ card.episode_text_position = "compact"
    /\ card.title_text # "" /\ ~card.hide_episode_text
    /\ title_text_dimensions < metrics.title
    /\ font_size_modifier[1] > 0


\* C12: for every card with empty title text the title group of a submitted
\* command is empty, and a compact-mode create() ends without an exception,
\* with every index text at WIDTH/2 + 20 on every build.
\* Not an invariant of create(): with no text at all and a border wider than
\* half the canvas the fit step divides by a text width of 0.
C12_EmptyTitle ==
    card.title_text = "" =>
        /\ title_text_commands(card, font_size_modifier) = <<>>
        /\ \A k \in 1..Len(commands) : GroupOf(commands[k], "title") = <<>>
        /\ card.episode_text_position = "compact" =>
             /\ mpc # "raised"
             /\ \A k \in 1..Len(commands) :
                  LET ann == Annotates(GroupOf(commands[k], "index")) IN
                  \A i \in 1..Len(ann) :
                      <<ann[i].args[1], ann[i].args[2]>> = <<(WIDTH \div 2) + 20, 1>>

\* The first create() of a card with fit_text has left its text-fit step, by
\* going on or by an exception
FirstFitStepLeft ==
    card.fit_text /\ (FirstBuildResolved \/ (builds = 1 /\ mpc = "raised"))

\* C14: once the resolver has run, font_size_modifier is max_width/text_width
\* (so modifier * text_width = max_width, modifier < 1.0) exactly when
\* text_width > max_width, and 1.0 otherwise, with margin = 20 per shown index
\* field, text_width = title width + index width + margin and
\* max_width = WIDTH - 2*border_size; for border_size 55, title width 3000,
\* index width 400 and both fields shown the modifier is 3090/3440.
\* Not an invariant of create(): a text width of 0 above a negative max_width
\* ends the resolver in a division by zero.
C14_ResolvedModifier ==
    FirstFitStepLeft =>
        /\ BaseTextWidth > MaxWidth =>
             /\ font_size_modifier[1] * BaseTextWidth = MaxWidth * font_size_modifier[2]
             /\ font_size_modifier[1] < font_size_modifier[2]
        /\ BaseTextWidth <= MaxWidth => font_size_modifier = <<1, 1>>
        /\ (card.border_size = 55 /\ BaseTitleWidth = 3000 /\ BaseIndexWidth = 400
                /\ Margin = 40) =>
             font_size_modifier = Rat(3090, 3440)

Count(log, q) == Len(SelectSeq(log, LAMBDA x : x = q))

\* C15: in one create(), without fit_text the index text is never measured
\* and the modifier stays as it was; with fit_text and text_width <= max_width
\* nothing is measured after the index text; the title is measured a second
\* time only once the modifier was changed; and exactly one run is issued,
\* after every measurement query.
\* Not an invariant of create(): the create() that divides by zero in the fit
\* step ends without a run.
C15_MeasureThenRunOnce ==
    /\ ~card.fit_text =>
         /\ Count(engine_log, "measure_index") = 0
         /\ Count(engine_log, "measure_title") <= 1
         /\ font_size_modifier = <<1, 1>>
    /\ (FirstBuildResolved /\ BaseTextWidth <= MaxWidth) =>
         Count(engine_log, "measure_title") = 1
    /\ (FirstBuildResolved /\ Count(engine_log, "measure_title") = 2) =>
         font_size_modifier # <<1, 1>>
    /\ \A i \in 1..Len(engine_log) :
         engine_log[i] = "run" => i = Len(engine_log)
    /\ Count(engine_log, "measure_index") <= 1
    /\ \A i \in 1..Len(engine_log) :
         (engine_log[i] = "measure_title" /\ i > 1) =>
             (i = 3 /\ engine_log[2] = "measure_index")
    /\ mpc \in {"done", "raised"} => Count(engine_log, "run") = 1


-----------------------------------------------------------------------------
\* Properties of the genre card builds (checked under SpecGenre)

Intermediates == {RESIZED_SOURCE, SOURCE_WITH_GRADIENT}

\* C4: a build that saw a run return non-empty stderr ends reported as
\* failed (error() logged or an exception raised), never as a plain return.
\* Not an invariant of create(): the result of run is dropped.
C4_StderrReported ==
    \A b \in Builds :
        (gpc[b] \in {"done", "failed"} /\ stderr_seen[b]) => errors[b]

\* C5: under every interleaving of two builds with different sources and
\* outputs, an output shows only its own build's source, and an intermediate
\* a build wrote and still has to read holds what that build wrote.
\* Not an invariant: both builds write the same two intermediate paths.
C5_BuildsIndependent ==
    \A b \in Builds :
        /\ fs[Output(b)] \in {0, b}
        /\ (gpc[b] = "gradient" /\ RESIZED_SOURCE \in produced[b])
               => fs[RESIZED_SOURCE] = b
        /\ (gpc[b] = "text" /\ SOURCE_WITH_GRADIENT \in produced[b])
               => fs[SOURCE_WITH_GRADIENT] = b

\* C8: the step that completes create() leaves neither intermediate image
\* behind and raises nothing, also when a path it unlinks does not exist (then
\* the file system is left as it was); deleting once more changes nothing.
C8_CleanupIdempotent ==
    [][ \A b \in Builds :
          (gpc[b] = "delete" /\ gpc'[b] # "delete") =>
              /\ gpc'[b] = "done"
              /\ \A p \in Intermediates : fs'[p] = 0
              /\ (\A p \in Intermediates : fs[p] = 0) => fs' = fs
              /\ delete_intermediate_images(fs', Intermediates)
                     = [fs |-> fs', raised |-> FALSE] ]_vars

\* C8 witness: both builds ran to completion, one cleanup removed both
\* intermediates, the other found neither
C8_CleanupOnMissingPaths ==
    \E a, b \in Builds :
        /\ gpc[a] = "done" /\ gpc[b] = "done"
        /\ unlinked[a] = << Intermediates >>
        /\ unlinked[b] = << {} >>

\* C9: a build that ended by an exception after writing an intermediate image
\* has deleted the intermediates it wrote.
\* Not an invariant of create(): nothing catches the exception.
C9_FailedBuildCleansUp ==
    \A b \in Builds :
        gpc[b] = "raised" => \A p \in produced[b] : fs[p] # b

-----------------------------------------------------------------------------
\* Properties of the series YAML file (checked under SpecYaml)

\* The last update ran in append mode over a file that held a document
AppendedOver ==
    /\ ycfg.sync_mode = "append"
    /\ ysource \in {"sonarr", "plex"}
    /\ existing.state = "doc"

\* Every key of before is in after with the same entry
SameUnder(before, after) ==
    \A k \in DOMAIN before : k \in DOMAIN after /\ after[k] = before[k]

\* C17: after an append-mode update, every library and series key the file
\* held before the update is still there with the same entry, whatever the
\* incoming YAML holds under that key.
C17_AppendKeepsExisting ==
    AppendedOver =>
        /\ yfile.state = "doc"
        /\ SameUnder(existing.doc.libraries.map, yfile.doc.libraries.map)
        /\ SameUnder(existing.doc.series.map, yfile.doc.series.map)

\* An append-mode update has rewritten a file although the incoming YAML
\* held other entries under a library key and a series key of the file
C17_AppendOverConflict ==
    /\ AppendedOver
    /\ youtcome = "ok"
    /\ yfile # existing
    /\ \E k \in DOMAIN existing.doc.libraries.map \cap DOMAIN incoming.libraries.map :
         PathOf(incoming.libraries.map[k]) # existing.doc.libraries.map[k]
         /\ incoming.libraries.map[k] # existing.doc.libraries.map[k]
    /\ \E k \in DOMAIN existing.doc.series.map \cap DOMAIN incoming.series.map :
         [incoming.series.map[k] EXCEPT !.flow = ycfg.compact_mode]
             # existing.doc.series.map[k]

\* An exclusion the writer is to apply or to skip: no dictionary, a 'series'
\* or other label, or a 'yaml' file that cannot be read or lists its series
Handled(exclusion) ==
    \/ ~exclusion.is_dict
    \/ Lower(exclusion.label) # "yaml"
    \/ ExclusionFile(exclusion.value).state \in {"missing", "invalid", "duplicate"}
    \/ /\ ExclusionFile(exclusion.value).state = "doc"
       /\ ExclusionFile(exclusion.value).doc.series.kind = "map"

\* The series keys named by the valid exclusions
ExcludedKeys(exclusions) ==
    UNION { IF ~exclusions[i].is_dict THEN {}
            ELSE IF Lower(exclusions[i].label) = "series"
            THEN {Key(exclusions[i].value)}
            ELSE IF Lower(exclusions[i].label) = "yaml"
                    /\ ExclusionFile(exclusions[i].value).state = "doc"
            THEN DOMAIN ExclusionFile(exclusions[i].value).doc.series.map
            ELSE {} : i \in 1..Len(exclusions) }

\* C19: once an update has built its YAML, the YAML holds no series named by
\* a 'series' exclusion or listed in a readable 'yaml' exclusion file, every
\* other series and every library is as the source gave it, and exclusions
\* that are no dictionary or cannot be read are skipped: the others are
\* still applied.
\* Not an invariant of update_from_sonarr: an exclusion that is no
\* dictionary raises before any exclusion is applied.
C19_ExclusionsApplied ==
    (/\ ysource \in {"sonarr", "plex"}
     /\ youtcome # "exit"
     /\ \A i \in 1..Len(applied) : Handled(applied[i])) =>
        /\ youtcome # "raised_yaml"
        /\ DOMAIN incoming.series.map
               = DOMAIN built.series.map \ ExcludedKeys(applied)
        /\ \A k \in DOMAIN incoming.series.map :
               incoming.series.map[k] = built.series.map[k]
        /\ incoming.libraries = built.libraries

\* C20: after an append-mode update over a non-empty document, every library
\* and series key of the incoming YAML that the file did not hold is in the
\* file, with the entry a sync-mode write of the same YAML stores; a library
\* entry is {'path': <path>}.
\* Not an invariant of __append: a new library is stored as
\* {'path': {'path': <path>}}, and raises KeyError when the file has no
\* 'libraries' section.
C20_AppendAddsAbsent ==
    (/\ AppendedOver
     /\ youtcome \notin {"exit", "raised_yaml"}
     /\ DocLen(existing.doc) > 0) =>
        LET synced == write(ycfg, incoming) IN
        /\ youtcome = "ok"
        /\ \A k \in DOMAIN incoming.libraries.map \ DOMAIN existing.doc.libraries.map :
               /\ k \in DOMAIN yfile.doc.libraries.map
               /\ yfile.doc.libraries.map[k] = synced.libraries.map[k]
               /\ yfile.doc.libraries.map[k].keys = <<"path">>
        /\ \A k \in DOMAIN incoming.series.map \ DOMAIN existing.doc.series.map :
               /\ k \in DOMAIN yfile.doc.series.map
               /\ yfile.doc.series.map[k] = synced.series.map[k]

\* C21: an append-mode update that finds a file it cannot read or parse
\* (duplicate keys or any other read error) ends without raising and leaves
\* the file as it was; in append mode the file is rewritten only when it was
\* read, missing or blank.
\* Not an invariant of update_from_sonarr: an exclusion that is no dictionary
\* raises before the file is looked at.
C21_ReadErrorLeavesFile ==
    (/\ ycfg.sync_mode = "append"
     /\ ysource \in {"sonarr", "plex"}
     /\ youtcome # "exit") =>
        /\ existing.state \in {"invalid", "duplicate"} =>
             /\ youtcome = "ok"
             /\ yfile = existing
        /\ yfile # existing => existing.state \in {"missing", "blank", "doc"}

====
